---- MODULE Spec2Model ----
(***************************************************************************)
(* The mentor completion gateway of nina-jsl/bot: the prompt builder       *)
(* buildSystemPrompt and the POST handler of src/app/api/mentor/route.ts,  *)
(* and the second POST handler of the repository (src/unnamed/part_000).   *)
(*                                                                         *)
(* Text is modelled as a sequence of tokens: a token is a chunk of text    *)
(* that is never split.  Each fixed template of the source is one token,   *)
(* "\n" and " " are whitespace tokens, and free text supplied by a caller  *)
(* (the case label) is any sequence over TagTokens, which holds ordinary   *)
(* words, whitespace and the text of the fixed templates themselves.       *)
(* JSON/JavaScript values are records [t |-> type, v |-> value].           *)
(***************************************************************************)
EXTENDS Integers, Sequences, FiniteSets, TLC

\* ------------------------------------------------------------------ bounds
\* longest case label, in tokens, given to buildSystemPrompt directly
MaxTagLen == 2
\* longest messages list of a request body
MaxMsgs == 2
\* requests the mentor route serves at the same time
MaxReqs == 2

\* ------------------------------------------------------- JavaScript values
Undefined == [t |-> "undefined", v |-> ""]
Null == [t |-> "null", v |-> ""]
JsTrue == [t |-> "boolean", v |-> "true"]
JsFalse == [t |-> "boolean", v |-> "false"]
JsStr(s) == [t |-> "string", v |-> s]
JsNum(s) == [t |-> "number", v |-> s]

\* JavaScript truthiness (ToBoolean), as used by !x, x ? a : b and filter(Boolean)
Truthy(x) ==
  CASE x.t = "undefined" -> FALSE
    [] x.t = "null" -> FALSE
    [] x.t = "boolean" -> x.v = "true"
    [] x.t = "number" -> x.v \notin {"0", "NaN"}
    [] x.t = "string" -> x.v # ""
    [] OTHER -> TRUE

\* ------------------------------------------------------------------- text
Whitespace == {" ", "\n"}

RECURSIVE TrimStart(_)
TrimStart(s) ==
  IF s # <<>> /\ Head(s) \in Whitespace THEN TrimStart(Tail(s)) ELSE s

RECURSIVE TrimEnd(_)
TrimEnd(s) ==
  IF s # <<>> /\ s[Len(s)] \in Whitespace
  THEN TrimEnd(SubSeq(s, 1, Len(s) - 1))
  ELSE s

\* String.prototype.trim
Trim(s) == TrimEnd(TrimStart(s))

\* Array.prototype.filter(Boolean) on an array of strings: drops the empty ones
RECURSIVE FilterBoolean(_)
FilterBoolean(parts) ==
  IF parts = <<>> THEN <<>>
  ELSE IF Head(parts) = <<>> THEN FilterBoolean(Tail(parts))
  ELSE <<Head(parts)>> \o FilterBoolean(Tail(parts))

\* Array.prototype.join("\n")
RECURSIVE JoinNewline(_)
JoinNewline(parts) ==
  IF parts = <<>> THEN <<>>
  ELSE IF Len(parts) = 1 THEN Head(parts)
  ELSE Head(parts) \o <<"\n">> \o JoinNewline(Tail(parts))

\* String.prototype.includes: sub occurs in s as a contiguous run
Contains(s, sub) ==
  \E i \in 0..(Len(s) - Len(sub)) : SubSeq(s, i + 1, i + Len(sub)) = sub

\* ------------------------------------------------------- buildSystemPrompt
MentorModes == {"communication_coach", "pm_simulator", "workflow_helper", "safe_qa"}

basePersona == <<"You are Junior Analyst Mentor ...">>

CommunicationCoachBlock == <<"You are a senior analyst / PM helping a junior polish ...">>
PmSimulatorBlock == <<"You are acting like an investment PM who is tough but fair ...">>
WorkflowHelperBlock == <<"You are a calm, practical senior helping a junior structure ...">>
SafeQaBlock == <<"You are a psychologically safe mentor ...">>

LensOnDirective == <<"IMPORTANT - OUTPUT STRUCTURE WHEN PM LENS = ON: ...">>
LensOffDirective == <<"IMPORTANT - OUTPUT STRUCTURE WHEN PM LENS = OFF: ...">>

CasePrefix == "This conversation is part of an ongoing case the analyst calls <"
CaseSuffix == ">. Speak as a consistent mentor ..."

\* A case label is undefined, null or a string; its text is a token sequence.
NoTag == [t |-> "undefined", v |-> <<>>]
NullTag == [t |-> "null", v |-> <<>>]
TagStr(s) == [t |-> "string", v |-> s]

\* mutant of TagTruthy: any string counts, the empty one too (caseTag !== null)
TagTruthy_AnyString(caseTag) == caseTag.t = "string"

\* truthiness of a case label: a non-empty string
TagTruthy(caseTag) == caseTag.t = "string" /\ caseTag.v # <<>>

\* the case-context sentence: "" unless the label is truthy
caseContext(caseTag) ==
  IF TagTruthy(caseTag)
  THEN <<CasePrefix>> \o caseTag.v \o <<CaseSuffix>>
  ELSE <<>>

\* mutant of modeInstructions: the workflow_helper case holds the PM block
modeInstructions_WrongBlock(mode) ==
  CASE mode = JsStr("communication_coach") -> CommunicationCoachBlock
    [] mode = JsStr("pm_simulator") -> PmSimulatorBlock
    [] mode = JsStr("workflow_helper") -> PmSimulatorBlock
    [] OTHER -> SafeQaBlock

\* mutant of modeInstructions: the default label sits on the first case
modeInstructions_DefaultFirst(mode) ==
  CASE mode = JsStr("pm_simulator") -> PmSimulatorBlock
    [] mode = JsStr("workflow_helper") -> WorkflowHelperBlock
    [] mode = JsStr("safe_qa") -> SafeQaBlock
    [] OTHER -> CommunicationCoachBlock

\* the switch on mode: strict equality with the four tags, safe_qa by default
modeInstructions(mode) ==
  CASE mode = JsStr("communication_coach") -> CommunicationCoachBlock
    [] mode = JsStr("pm_simulator") -> PmSimulatorBlock
    [] mode = JsStr("workflow_helper") -> WorkflowHelperBlock
    [] OTHER -> SafeQaBlock

\* mutant of pmLensInstructions: the two branches are exchanged
pmLensInstructions_Exchanged(pmLens) ==
  IF Truthy(pmLens) THEN LensOffDirective ELSE LensOnDirective

pmLensInstructions(pmLens) ==
  IF Truthy(pmLens) THEN LensOnDirective ELSE LensOffDirective

buildSystemPrompt(mode, pmLens, caseTag) ==
  Trim(JoinNewline(FilterBoolean(
    << basePersona, <<>>, caseContext(caseTag), <<>>,
       modeInstructions(mode), <<>>, pmLensInstructions(pmLens) >>)))

\* ------------------------------------------------------------ request data
\* values a request body can carry in "mode"
ModeValues ==
  {JsStr(m) : m \in MentorModes} \cup
  {JsStr("subscribe"), JsStr("constructor"), JsNum("5"),
   Undefined, Null, JsStr(""), JsNum("0"), JsFalse}

\* values a request body can carry in "pmLens"
LensValues == {Undefined, JsTrue, JsFalse, Null, JsStr("yes")}

\* words a case label is made of: an ordinary word, a blank, and the text of
\* fixed templates of the prompt
TagTokens ==
  {"Acme", " ", PmSimulatorBlock[1], SafeQaBlock[1],
   LensOnDirective[1], LensOffDirective[1]}

RECURSIVE SeqsUpTo(_, _)
SeqsUpTo(S, n) ==
  IF n = 0 THEN {<<>>}
  ELSE LET shorter == SeqsUpTo(S, n - 1)
       IN shorter \cup {Append(s, x) : s \in shorter, x \in S}

\* the case labels buildSystemPrompt is applied to
TagValues == {NoTag, NullTag} \cup {TagStr(s) : s \in SeqsUpTo(TagTokens, MaxTagLen)}

\* the case labels a request body carries
BodyTagValues ==
  {NoTag, NullTag, TagStr(<<>>), TagStr(<<"Acme">>), TagStr(<<LensOnDirective[1]>>)}

\* elements of a "messages" array: two well-formed messages, an object without
\* role and content, a number and null
UserMsg == [t |-> "object", role |-> JsStr("user"), content |-> JsStr("hello")]
AssistantMsg == [t |-> "object", role |-> JsStr("assistant"), content |-> JsStr("hi")]
EmptyObj == [t |-> "object", role |-> Undefined, content |-> Undefined]
NumElem == [t |-> "number", role |-> Undefined, content |-> Undefined]
NullElem == [t |-> "null", role |-> Undefined, content |-> Undefined]
Elements == {UserMsg, AssistantMsg, EmptyObj, NumElem, NullElem}

\* values a request body can carry in "messages"
MessagesValues ==
  {[t |-> "undefined", v |-> <<>>], [t |-> "null", v |-> <<>>],
   [t |-> "string", v |-> <<>>], [t |-> "object", v |-> <<>>]} \cup
  {[t |-> "array", v |-> s] : s \in SeqsUpTo(Elements, MaxMsgs)}

\* what req.json() has to read: text that is no JSON, the JSON null, a JSON
\* number, or a JSON object with any of the four fields
Bodies ==
  {[raw |-> r, mode |-> Undefined, messages |-> [t |-> "undefined", v |-> <<>>],
    pmLens |-> Undefined, caseTag |-> NoTag] : r \in {"unparseable", "null", "number"}}
  \cup
  {[raw |-> "object", mode |-> m, messages |-> ms, pmLens |-> l, caseTag |-> c] :
     m \in ModeValues, ms \in MessagesValues, l \in LensValues, c \in BodyTagValues}

\* process.env.GROQ_API_KEY
KeyValues == {Undefined, JsStr(""), JsStr("gsk_live")}

\* what generateText resolves to, and what it rejects with
Texts == {"Here is how I would phrase it.", ""}
Thrown ==
  {[t |-> "Error", message |-> "rate limit reached"],
   [t |-> "Error", message |-> ""],
   [t |-> "object", message |-> "bad gateway"],
   [t |-> "string", message |-> ""]}

\* ------------------------------------------------------------------- state
VARIABLES
  apiKey,      \* process.env.GROQ_API_KEY of the server process
  handler,     \* the route serving the request: "mentor" (route.ts) or "part_000"
  pc,          \* where the request is: "idle", "json", "generate", "done"
  body,        \* what the request carries
  calls,       \* the generateText calls of this request, in order
  outcome,     \* what generateText did for this request
  responses,   \* the responses of this request, in order
  logs,        \* the console.error lines of this request, in order
  trace,       \* the kinds of this request's effects, in the order they happened
  bMode, bLens, bTag,   \* arguments of a direct use of buildSystemPrompt
  bPrompt,              \* its result, once built
  reqs,        \* the requests the mentor route serves concurrently, by id
  pScores, pPath,       \* argument and result of a direct use of generateSkillsPath
  \* the chat page (HomePage): its React state, by the names of the source
  currentMode,          \* mode
  histories, input, loading, errorMsg,
  showSkillsOverlay, skillScores, skillsPath,
  interactionCount, checkInPrompt, showPathModal, showPreBriefMenu, caseName,
  storage,              \* window.localStorage, by key
  inflight              \* the handleSend call awaiting its response, with what it closed over

gatewayVars == <<apiKey, handler, pc, body, calls, outcome, responses, logs, trace>>
builderVars == <<bMode, bLens, bTag, bPrompt>>
concVars == <<reqs>>
pathVars == <<pScores, pPath>>
chatVars ==
  <<currentMode, histories, input, loading, errorMsg, interactionCount, checkInPrompt,
    showPreBriefMenu, inflight>>
skillsVars == <<showSkillsOverlay, skillScores, skillsPath, showPathModal>>
clientVars == <<chatVars, skillsVars, caseName, storage>>
serverVars == <<gatewayVars, builderVars, concVars>>
vars == <<apiKey, handler, pc, body, calls, outcome, responses, logs, trace,
          bMode, bLens, bTag, bPrompt, reqs, pScores, pPath,
          currentMode, histories, input, loading, errorMsg, interactionCount,
          checkInPrompt, showPreBriefMenu, inflight, showSkillsOverlay, skillScores,
          skillsPath, showPathModal, caseName, storage>>

NoBody ==
  [raw |-> "none", mode |-> Undefined, messages |-> [t |-> "undefined", v |-> <<>>],
   pmLens |-> Undefined, caseTag |-> NoTag]
NoOutcome == [kind |-> "none", text |-> "", err |-> [t |-> "string", message |-> ""]]
NotBuilt == <<"(not built)">>

\* mutant of Json: the status option is dropped, so every response is a 200
Json_StatusDropped(payload, status) == [status |-> 200, body |-> payload]

\* the two payloads the handlers build, and NextResponse.json(payload, {status})
AnswerBody(text) == [answer |-> JsStr(text), error |-> Undefined]
ErrorBody(message) == [answer |-> Undefined, error |-> JsStr(message)]
Json(payload, status) == [status |-> status, body |-> payload]

ModelId == "llama-3.3-70b-versatile"
Temperature == JsNum("0.4")

\* fixed texts of the two handlers
MissingKeyError == "GROQ_API_KEY is not set. Locally, set it in .env.local. ..."
InvalidBodyError == "Missing or invalid 'mode' or 'messages' in request body"
UnexpectedError == "Unexpected server error"
LegacyMissingKeyError == "GROQ_API_KEY is not set on the server."
LegacyError == "Something went wrong in the mentor API."

\* errors the runtime raises inside the handlers
SyntaxError == [t |-> "Error", message |-> "Unexpected token in JSON"]
DestructureError == [t |-> "Error", message |-> "Cannot destructure property 'mode' of 'body' as it is null."]
PropertyError == [t |-> "Error", message |-> "Cannot read properties of null"]
NotAFunctionError == [t |-> "Error", message |-> "body.messages.map is not a function"]

\* ------------------------------------------- POST of api/mentor/route.ts
\* mutant of MissingKey: tests the key against undefined only
MissingKey_UndefinedOnly == apiKey = Undefined

\* !process.env.GROQ_API_KEY
MissingKey == ~Truthy(apiKey)

\* const { mode, messages, pmLens = false, caseTag = null } = body
\* (a JSON number has none of the four properties)
Field(b, name) ==
  IF b.raw = "object" THEN b[name]
  ELSE IF name = "messages" THEN [t |-> "undefined", v |-> <<>>]
  ELSE IF name = "caseTag" THEN NoTag
  ELSE Undefined
PmLensOf(b) == IF Field(b, "pmLens") = Undefined THEN JsFalse ELSE Field(b, "pmLens")
CaseTagOf(b) == IF Field(b, "caseTag") = NoTag THEN NullTag ELSE Field(b, "caseTag")

\* mutant of InvalidBody: the length test is left out
InvalidBody_NoLengthTest(mode, messages) ==
  \/ ~Truthy(mode)
  \/ messages.t # "array"

\* mutant of InvalidBody: the mode test is left out
InvalidBody_NoModeTest(mode, messages) ==
  \/ messages.t # "array"
  \/ Len(messages.v) = 0

\* !mode || !Array.isArray(messages) || messages.length === 0
InvalidBody(mode, messages) ==
  \/ ~Truthy(mode)
  \/ messages.t # "array"
  \/ Len(messages.v) = 0

\* mutant of ChatMessages: only the messages after the first are forwarded
ChatMessages_DropsFirst(messages) ==
  [i \in 1..(Len(messages.v) - 1) |->
     [role |-> messages.v[i + 1].role, content |-> messages.v[i + 1].content]]

\* messages.map((m) => ({ role: m.role, content: m.content }))
MapThrows(messages) == \E i \in 1..Len(messages.v) : messages.v[i].t = "null"
ChatMessages(messages) ==
  [i \in 1..Len(messages.v) |->
     [role |-> messages.v[i].role, content |-> messages.v[i].content]]

\* mutant of ErrorMessage: the fixed message whatever was thrown
ErrorMessage_AlwaysGeneric(err) == UnexpectedError

\* err instanceof Error ? err.message : "Unexpected server error"
ErrorMessage(err) == IF err.t = "Error" THEN err.message ELSE UnexpectedError

\* the arguments of generateText
GenerateArgs(system, messages) ==
  [model |-> ModelId, system |-> system, messages |-> messages,
   temperature |-> Temperature, maxOutputTokens |-> JsNum("800")]

\* the catch block: log, then answer 500 with the message
MentorCatch(err) ==
  /\ logs' = Append(logs, "Error in /api/mentor:")
  /\ responses' = Append(responses, Json(ErrorBody(ErrorMessage(err)), 500))
  /\ trace' = trace \o <<"throw", "log", "response">>
  /\ pc' = "done"

\* a request arrives: the handler runs to its first await, req.json()
MentorPost ==
  /\ pc = "idle"
  /\ handler' = "mentor"
  /\ body' \in Bodies
  /\ calls' = <<>>
  /\ outcome' = NoOutcome
  /\ IF MissingKey
     THEN /\ logs' = <<"Missing GROQ_API_KEY env var">>
          /\ responses' = <<Json(ErrorBody(MissingKeyError), 500)>>
          /\ trace' = <<"log", "response">>
          /\ pc' = "done"
     ELSE /\ logs' = <<>>
          /\ responses' = <<>>
          /\ trace' = <<>>
          /\ pc' = "json"
  /\ UNCHANGED <<apiKey, builderVars, concVars, pathVars, clientVars>>

\* req.json() settles: the handler runs to its second await, generateText
MentorJson ==
  /\ pc = "json"
  /\ handler = "mentor"
  /\ IF body.raw = "unparseable" THEN MentorCatch(SyntaxError) /\ UNCHANGED calls
     ELSE IF body.raw = "null" THEN MentorCatch(DestructureError) /\ UNCHANGED calls
     ELSE LET mode == Field(body, "mode")
              messages == Field(body, "messages")
          IN IF InvalidBody(mode, messages)
             THEN /\ responses' = Append(responses, Json(ErrorBody(InvalidBodyError), 400))
                  /\ trace' = Append(trace, "response")
                  /\ pc' = "done"
                  /\ UNCHANGED <<calls, logs>>
             ELSE IF MapThrows(messages)
             THEN MentorCatch(PropertyError) /\ UNCHANGED calls
             ELSE /\ calls' = Append(calls,
                       GenerateArgs(buildSystemPrompt(mode, PmLensOf(body), CaseTagOf(body)),
                                    ChatMessages(messages)))
                  /\ trace' = Append(trace, "call")
                  /\ pc' = "generate"
                  /\ UNCHANGED <<responses, logs>>
  /\ UNCHANGED <<apiKey, handler, body, outcome, builderVars, concVars, pathVars, clientVars>>

\* generateText resolves with { text }
MentorResolve(text) ==
  /\ pc = "generate"
  /\ handler = "mentor"
  /\ outcome' = [kind |-> "text", text |-> text, err |-> NoOutcome.err]
  /\ responses' = Append(responses, Json(AnswerBody(text), 200))
  /\ trace' = Append(trace, "response")
  /\ pc' = "done"
  /\ UNCHANGED <<apiKey, handler, body, calls, logs, builderVars, concVars, pathVars, clientVars>>

\* generateText rejects
MentorReject(err) ==
  /\ pc = "generate"
  /\ handler = "mentor"
  /\ outcome' = [kind |-> "throw", text |-> "", err |-> err]
  /\ MentorCatch(err)
  /\ UNCHANGED <<apiKey, handler, body, calls, builderVars, concVars, pathVars, clientVars>>

\* --------------------------------------------- POST of src/unnamed/part_000
LegacyBaseTone == "You are a mid-level / senior research analyst ..."
LegacyBlock(mode) ==
  CASE mode = "communication_coach" -> "In this mode you are mainly helping with communication ..."
    [] mode = "pm_simulator" -> "In this mode you are role-playing as a portfolio manager ..."
    [] mode = "workflow_helper" -> "In this mode you are helping them manage workload ..."
    [] OTHER -> "In this mode you are a psychologically safe sounding board ..."

\* MODE_PROMPTS[key]: an own entry for the four modes; "constructor" is found
\* on Object.prototype and is no string; any other key is undefined
MODE_PROMPTS(key) ==
  IF key.t = "string" /\ key.v \in MentorModes
  THEN <<"\n", "\n", LegacyBaseTone, "\n", "\n", "\n", LegacyBlock(key.v), "\n">>
  ELSE IF key = JsStr("constructor") THEN <<"function Object() { [native code] }">>
  ELSE <<>>

\* body.mode && MODE_PROMPTS[body.mode] ? body.mode : "safe_qa"
LegacyMode(mode) ==
  IF Truthy(mode) /\ MODE_PROMPTS(mode) # <<>> THEN mode ELSE JsStr("safe_qa")

\* body.messages.map(...) throws on a value without map and on a null element
LegacyMapError(b) ==
  IF b.raw # "object" \/ b.messages.t \in {"undefined", "null"} THEN PropertyError
  ELSE IF b.messages.t # "array" THEN NotAFunctionError
  ELSE IF \E i \in 1..Len(b.messages.v) : b.messages.v[i].t = "null" THEN PropertyError
  ELSE [t |-> "none", message |-> ""]

\* role: m.role === "user" ? "user" : "assistant", content: m.content
LegacyMessages(messages) ==
  [i \in 1..Len(messages.v) |->
     [role |-> IF messages.v[i].role = JsStr("user") THEN JsStr("user") ELSE JsStr("assistant"),
      content |-> messages.v[i].content]]

LegacyArgs(system, messages) ==
  [model |-> ModelId, system |-> system, messages |-> messages,
   temperature |-> Undefined, maxOutputTokens |-> Undefined]

\* the catch block: log, then answer 500 with the fixed message
LegacyCatch ==
  /\ logs' = Append(logs, "Mentor API error:")
  /\ responses' = Append(responses, Json(ErrorBody(LegacyError), 500))
  /\ trace' = trace \o <<"throw", "log", "response">>
  /\ pc' = "done"

\* a request arrives: the handler runs to its first await, req.json()
LegacyPost ==
  /\ pc = "idle"
  /\ handler' = "part_000"
  /\ body' \in Bodies
  /\ calls' = <<>>
  /\ outcome' = NoOutcome
  /\ logs' = <<>>
  /\ IF ~Truthy(apiKey)
     THEN /\ responses' = <<Json(ErrorBody(LegacyMissingKeyError), 500)>>
          /\ trace' = <<"response">>
          /\ pc' = "done"
     ELSE /\ responses' = <<>>
          /\ trace' = <<>>
          /\ pc' = "json"
  /\ UNCHANGED <<apiKey, builderVars, concVars, pathVars, clientVars>>

\* req.json() settles: the handler runs to its second await, generateText
LegacyJson ==
  /\ pc = "json"
  /\ handler = "part_000"
  /\ IF body.raw \in {"unparseable", "null"} \/ LegacyMapError(body).t # "none"
     THEN LegacyCatch /\ UNCHANGED calls
     ELSE /\ calls' = Append(calls,
               LegacyArgs(MODE_PROMPTS(LegacyMode(body.mode)), LegacyMessages(body.messages)))
          /\ trace' = Append(trace, "call")
          /\ pc' = "generate"
          /\ UNCHANGED <<responses, logs>>
  /\ UNCHANGED <<apiKey, handler, body, outcome, builderVars, concVars, pathVars, clientVars>>

\* generateText resolves with { text }
LegacyResolve(text) ==
  /\ pc = "generate"
  /\ handler = "part_000"
  /\ outcome' = [kind |-> "text", text |-> text, err |-> NoOutcome.err]
  /\ responses' = Append(responses, Json(AnswerBody(text), 200))
  /\ trace' = Append(trace, "response")
  /\ pc' = "done"
  /\ UNCHANGED <<apiKey, handler, body, calls, logs, builderVars, concVars, pathVars, clientVars>>

\* generateText rejects
LegacyReject(err) ==
  /\ pc = "generate"
  /\ handler = "part_000"
  /\ outcome' = [kind |-> "throw", text |-> "", err |-> err]
  /\ LegacyCatch
  /\ UNCHANGED <<apiKey, handler, body, calls, builderVars, concVars, pathVars, clientVars>>

\* ------------------------- the mentor route serving several requests at once
\* Each invocation of POST has its own req, body, mode, messages, system,
\* chatMessages, text and err (route.ts:148-197); the module keeps no state
\* of its own, and process.env is only read.
ReqIds == 1..MaxReqs
IdleReq ==
  [handler |-> "mentor", pc |-> "idle", body |-> NoBody, calls |-> <<>>, outcome |-> NoOutcome,
   responses |-> <<>>, logs |-> <<>>]
NoRequests == [r \in ReqIds |-> IdleReq]

\* the bodies of the concurrent requests
ConcBodies ==
  {[raw |-> "unparseable", mode |-> Undefined, messages |-> [t |-> "undefined", v |-> <<>>],
    pmLens |-> Undefined, caseTag |-> NoTag],
   [raw |-> "object", mode |-> JsStr("communication_coach"),
    messages |-> [t |-> "array", v |-> <<UserMsg>>], pmLens |-> Undefined, caseTag |-> NoTag],
   [raw |-> "object", mode |-> JsStr("subscribe"),
    messages |-> [t |-> "array", v |-> <<UserMsg, AssistantMsg>>],
    pmLens |-> JsTrue, caseTag |-> TagStr(<<"Acme">>)],
   [raw |-> "object", mode |-> JsStr("pm_simulator"),
    messages |-> [t |-> "array", v |-> <<>>], pmLens |-> Undefined, caseTag |-> NoTag],
   [raw |-> "object", mode |-> JsStr("pm_simulator"),
    messages |-> [t |-> "array", v |-> <<NullElem>>], pmLens |-> JsFalse, caseTag |-> NullTag]}

\* the catch block of either handler, on the request's own record
CatchStep(q, err) ==
  IF q.handler = "mentor"
  THEN [q EXCEPT !.logs = Append(q.logs, "Error in /api/mentor:"),
                 !.responses = Append(q.responses, Json(ErrorBody(ErrorMessage(err)), 500)),
                 !.pc = "done"]
  ELSE [q EXCEPT !.logs = Append(q.logs, "Mentor API error:"),
                 !.responses = Append(q.responses, Json(ErrorBody(LegacyError), 500)),
                 !.pc = "done"]

\* POST up to its first await
PostStep(h, b) ==
  IF h = "mentor" /\ MissingKey
  THEN [IdleReq EXCEPT !.handler = h, !.body = b,
                       !.logs = <<"Missing GROQ_API_KEY env var">>,
                       !.responses = <<Json(ErrorBody(MissingKeyError), 500)>>,
                       !.pc = "done"]
  ELSE IF h = "part_000" /\ ~Truthy(apiKey)
  THEN [IdleReq EXCEPT !.handler = h, !.body = b,
                       !.responses = <<Json(ErrorBody(LegacyMissingKeyError), 500)>>,
                       !.pc = "done"]
  ELSE [IdleReq EXCEPT !.handler = h, !.body = b, !.pc = "json"]

\* route.ts POST from req.json() to its second await
MentorJsonStep(q) ==
  IF q.body.raw = "unparseable" THEN CatchStep(q, SyntaxError)
  ELSE IF q.body.raw = "null" THEN CatchStep(q, DestructureError)
  ELSE IF InvalidBody(Field(q.body, "mode"), Field(q.body, "messages"))
  THEN [q EXCEPT !.responses = Append(q.responses, Json(ErrorBody(InvalidBodyError), 400)),
                 !.pc = "done"]
  ELSE IF MapThrows(Field(q.body, "messages")) THEN CatchStep(q, PropertyError)
  ELSE [q EXCEPT !.calls = Append(q.calls,
                    GenerateArgs(buildSystemPrompt(Field(q.body, "mode"), PmLensOf(q.body),
                                                   CaseTagOf(q.body)),
                                 ChatMessages(Field(q.body, "messages")))),
                 !.pc = "generate"]

\* part_000 POST from req.json() to its second await
LegacyJsonStep(q) ==
  IF q.body.raw \in {"unparseable", "null"} \/ LegacyMapError(q.body).t # "none"
  THEN CatchStep(q, SyntaxError)
  ELSE [q EXCEPT !.calls = Append(q.calls,
                    LegacyArgs(MODE_PROMPTS(LegacyMode(q.body.mode)),
                               LegacyMessages(q.body.messages))),
                 !.pc = "generate"]

JsonStep(q) == IF q.handler = "mentor" THEN MentorJsonStep(q) ELSE LegacyJsonStep(q)

\* POST after generateText resolved, and after it rejected
ResolveStep(q, text) ==
  [q EXCEPT !.outcome = [kind |-> "text", text |-> text, err |-> NoOutcome.err],
            !.responses = Append(q.responses, Json(AnswerBody(text), 200)),
            !.pc = "done"]
RejectStep(q, err) ==
  CatchStep([q EXCEPT !.outcome = [kind |-> "throw", text |-> "", err |-> err]], err)

ConcPost(r) ==
  /\ reqs[r].pc = "idle"
  /\ \E h \in {"mentor", "part_000"}, b \in ConcBodies :
       reqs' = [reqs EXCEPT ![r] = PostStep(h, b)]
  /\ UNCHANGED <<gatewayVars, builderVars, pathVars, clientVars>>

\* mutant of ConcJson: the parsed body is kept in a variable of the module, so
\* a request resumes with the body of another request that has arrived
ConcJson_ModuleLevelBody(r) ==
  /\ reqs[r].pc = "json"
  /\ LET others == {o \in ReqIds : o # r /\ reqs[o].pc # "idle"}
         last == IF others = {} THEN r ELSE CHOOSE o \in others : TRUE
     IN reqs' = [reqs EXCEPT ![r] =
                   [JsonStep([reqs[r] EXCEPT !.body = reqs[last].body])
                      EXCEPT !.body = reqs[r].body]]
  /\ UNCHANGED <<gatewayVars, builderVars, pathVars, clientVars>>

ConcJson(r) ==
  /\ reqs[r].pc = "json"
  /\ reqs' = [reqs EXCEPT ![r] = JsonStep(reqs[r])]
  /\ UNCHANGED <<gatewayVars, builderVars, pathVars, clientVars>>

ConcResolve(r) ==
  /\ reqs[r].pc = "generate"
  /\ \E text \in Texts : reqs' = [reqs EXCEPT ![r] = ResolveStep(reqs[r], text)]
  /\ UNCHANGED <<gatewayVars, builderVars, pathVars, clientVars>>

ConcReject(r) ==
  /\ reqs[r].pc = "generate"
  /\ \E err \in Thrown : reqs' = [reqs EXCEPT ![r] = RejectStep(reqs[r], err)]
  /\ UNCHANGED <<gatewayVars, builderVars, pathVars, clientVars>>

\* -------------------------------------------------------- generateSkillsPath
\* SKILLS, in the order of the source; the keys of a SkillsScores object keep
\* this order (the initial object of HomePage, copied by spread)
SkillIds == <<"data", "modeling", "communication", "judgment", "time">>
SkillSet == {SkillIds[i] : i \in 1..Len(SkillIds)}
SkillLabel(id) ==
  CASE id = "data" -> "Data work (pulling, cleaning, basic analysis)"
    [] id = "modeling" -> "Modeling (Excel, valuations, scenarios)"
    [] id = "communication" -> "Communication (emails, IC notes, PM updates)"
    [] id = "judgment" -> "Investment judgment (sizing, catalysts, risk thinking)"
    [] id = "time" -> "Time & workflow management"
    [] OTHER -> id

\* the range of a slider of the self-assessment form, and its initial value
MinScore == 1
MaxScore == 5
DefaultScore == 3
Scores == MinScore..MaxScore
\* numbers a change event of a slider can carry: the range and one beyond
\* each end
RawValues == (MinScore - 1)..(MaxScore + 1)

\* Object.entries(scores): [id, score] pairs in key order
Entries(scores) == [i \in 1..Len(SkillIds) |-> <<SkillIds[i], scores[SkillIds[i]]>>]

\* mutant of SortByScore: a sort that is not stable, an entry goes before its ties
RECURSIVE InsertBeforeTies(_, _)
InsertBeforeTies(e, sorted) ==
  IF sorted = <<>> THEN <<e>>
  ELSE IF e[2] <= Head(sorted)[2] THEN <<e>> \o sorted
  ELSE <<Head(sorted)>> \o InsertBeforeTies(e, Tail(sorted))
RECURSIVE SortByScore_TiesReversed(_)
SortByScore_TiesReversed(es) ==
  IF es = <<>> THEN <<>>
  ELSE InsertBeforeTies(es[Len(es)], SortByScore_TiesReversed(SubSeq(es, 1, Len(es) - 1)))

\* Array.prototype.sort((a, b) => a[1] - b[1]): ascending by score, stable
RECURSIVE InsertByScore(_, _)
InsertByScore(e, sorted) ==
  IF sorted = <<>> THEN <<e>>
  ELSE IF e[2] < Head(sorted)[2] THEN <<e>> \o sorted
  ELSE <<Head(sorted)>> \o InsertByScore(e, Tail(sorted))
RECURSIVE SortByScore(_)
SortByScore(es) ==
  IF es = <<>> THEN <<>>
  ELSE InsertByScore(es[Len(es)], SortByScore(SubSeq(es, 1, Len(es) - 1)))

\* sorted.slice(0, 2).map(([id]) => SKILLS.find(...)?.label ?? id)
weakestLabels(scores) ==
  LET sorted == SortByScore(Entries(scores))
  IN [i \in 1..2 |-> SkillLabel(sorted[i][1])]

\* the template of step 1, cut at the quotation marks around the label
DQuote == "\""
StepOnePrefix == "Focus on communication and soft skills, especially around "
StepOneSuffix == ". Aim for ~3 real emails or updates this week using Communication Coach."
StepTwoText == "Pick ONE investment idea and run 2 deeper PM Simulator sessions ..."
StepThreeText == "Use Workflow Helper to structure a full week ..."

StepOne(scores) ==
  [week |-> 1, label |-> "Communication Coach",
   description |-> <<StepOnePrefix, DQuote, weakestLabels(scores)[1], DQuote, StepOneSuffix>>]
\* mutant of StepTwo: the second step is written for the weakest skill too
StepTwo_ByWeakest(scores) ==
  [week |-> 2, label |-> "PM Simulator",
   description |-> <<StepTwoText, weakestLabels(scores)[1]>>]
StepTwo(scores) ==
  [week |-> 2, label |-> "PM Simulator", description |-> <<StepTwoText>>]
StepThree(scores) ==
  [week |-> 3, label |-> "Workflow Helper", description |-> <<StepThreeText>>]

\* new Date().toISOString() at the moment of the call
FirstTime == "2026-03-01T09:00:00.000Z"
Times == {FirstTime, "2026-03-08T09:00:00.000Z"}

\* a SkillsPath value; skillsPath is null until one is set
NoPath == [t |-> "null", steps |-> <<>>, generatedAt |-> ""]
generateSkillsPath(scores, now) ==
  [t |-> "object",
   steps |-> <<StepOne(scores), StepTwo(scores), StepThree(scores)>>,
   generatedAt |-> now]

PathUnused ==
  /\ pScores = [id \in SkillSet |-> DefaultScore]
  /\ pPath = NoPath

\* the server side, when only the page is looked at
ServerUnused ==
  /\ apiKey = JsStr("gsk_live")
  /\ handler = "mentor"
  /\ pc = "idle"
  /\ body = NoBody
  /\ calls = <<>>
  /\ outcome = NoOutcome
  /\ responses = <<>>
  /\ logs = <<>>
  /\ trace = <<>>
  /\ bMode = Undefined
  /\ bLens = Undefined
  /\ bTag = NoTag
  /\ bPrompt = NotBuilt
  /\ reqs = NoRequests

\* --------------------------------------------------- the chat page: its data
\* bounds of the page model
\* messages in the four histories together
MaxMessages == 3
\* sliders of the self-assessment form moved away from their initial value
MaxMovedSliders == 1

\* a string state that is null (checkInPrompt, caseName) holds no text
NoText == <<>>

\* window.localStorage: getItem gives null for a key never set
PathKey == "jam_skills_path_v1"
CaseKey == "jam_current_case_v1"
StorageKeys == {PathKey, CaseKey}
Absent == [t |-> "null", v |-> <<>>]
Stored(text) == [t |-> "string", v |-> text]

\* JSON.stringify of a string: quotation marks inside it are escaped
EscapedQuote == "\\\""
\* mutant of EscapeTok: quotation marks are written as they are
EscapeTok_Verbatim(tok) == tok
EscapeTok(tok) == IF tok = DQuote THEN EscapedQuote ELSE tok
UnescapeTok(tok) == IF tok = EscapedQuote THEN DQuote ELSE tok
Quote(text) ==
  <<DQuote>> \o [i \in 1..Len(text) |-> EscapeTok(text[i])] \o <<DQuote>>

\* JSON.stringify of a number
Digits == <<"1", "2", "3">>
NumText(n) == Digits[n]

\* JSON.stringify of a step, of the steps and of a SkillsPath
StepJson(st) ==
  <<"{", "\"week\":", NumText(st.week), ",", "\"label\":">> \o Quote(<<st.label>>)
    \o <<",", "\"description\":">> \o Quote(st.description) \o <<"}">>
RECURSIVE StepsJson(_)
StepsJson(steps) ==
  IF steps = <<>> THEN <<>>
  ELSE IF Len(steps) = 1 THEN StepJson(Head(steps))
  ELSE StepJson(Head(steps)) \o <<",">> \o StepsJson(Tail(steps))
Stringify(path) ==
  <<"{", "\"steps\":", "[">> \o StepsJson(path.steps)
    \o <<"]", ",", "\"generatedAt\":">> \o Quote(<<path.generatedAt>>) \o <<"}">>

\* JSON.parse, reading the text from its start: each reader gives whether it
\* succeeded, the value read and the text left
ParseFailed == [ok |-> FALSE, val |-> <<>>, rest |-> <<>>]
StartsWith(text, toks) ==
  Len(text) >= Len(toks) /\ SubSeq(text, 1, Len(toks)) = toks
Drop(text, n) == SubSeq(text, n + 1, Len(text))
ParseString(text) ==
  IF text = <<>> \/ Head(text) # DQuote THEN ParseFailed
  ELSE LET closing == {j \in 2..Len(text) : text[j] = DQuote}
       IN IF closing = {} THEN ParseFailed
          ELSE LET j == CHOOSE c \in closing : \A d \in closing : c <= d
               IN [ok |-> TRUE,
                   val |-> [i \in 1..(j - 2) |-> UnescapeTok(text[i + 1])],
                   rest |-> Drop(text, j)]
ParseStep(text) ==
  IF ~StartsWith(text, <<"{", "\"week\":">>) \/ Len(text) < 5 THEN ParseFailed
  ELSE IF \A n \in 1..Len(Digits) : Digits[n] # text[3] THEN ParseFailed
  ELSE IF ~StartsWith(Drop(text, 3), <<",", "\"label\":">>) THEN ParseFailed
  ELSE LET label == ParseString(Drop(text, 5))
       IN IF ~label.ok \/ Len(label.val) # 1 THEN ParseFailed
          ELSE IF ~StartsWith(label.rest, <<",", "\"description\":">>) THEN ParseFailed
          ELSE LET description == ParseString(Drop(label.rest, 2))
               IN IF ~description.ok \/ ~StartsWith(description.rest, <<"}">>)
                  THEN ParseFailed
                  ELSE [ok |-> TRUE,
                        val |-> [week |-> CHOOSE n \in 1..Len(Digits) : Digits[n] = text[3],
                                 label |-> label.val[1],
                                 description |-> description.val],
                        rest |-> Drop(description.rest, 1)]
RECURSIVE ParseSteps(_)
ParseSteps(text) ==
  LET first == ParseStep(text)
  IN IF ~first.ok THEN ParseFailed
     ELSE IF StartsWith(first.rest, <<",">>)
     THEN LET others == ParseSteps(Drop(first.rest, 1))
          IN IF ~others.ok THEN ParseFailed
             ELSE [ok |-> TRUE, val |-> <<first.val>> \o others.val, rest |-> others.rest]
     ELSE [ok |-> TRUE, val |-> <<first.val>>, rest |-> first.rest]
Parse(text) ==
  IF text = <<"null">> THEN [ok |-> TRUE, val |-> NoPath, rest |-> <<>>]
  ELSE IF ~StartsWith(text, <<"{", "\"steps\":", "[">>) THEN ParseFailed
  ELSE LET steps == IF StartsWith(Drop(text, 3), <<"]">>)
                    THEN [ok |-> TRUE, val |-> <<>>, rest |-> Drop(text, 3)]
                    ELSE ParseSteps(Drop(text, 3))
       IN IF ~steps.ok \/ ~StartsWith(steps.rest, <<"]", ",", "\"generatedAt\":">>)
          THEN ParseFailed
          ELSE LET at == ParseString(Drop(steps.rest, 3))
               IN IF ~at.ok \/ Len(at.val) # 1 \/ at.rest # <<"}">> THEN ParseFailed
                  ELSE [ok |-> TRUE,
                        val |-> [t |-> "object", steps |-> steps.val, generatedAt |-> at.val[1]],
                        rest |-> <<>>]

\* the effect run once after the page is mounted: what it sets skillsPath and
\* showSkillsOverlay to, given what getItem returned
Usable(stored) == stored.t = "string" /\ stored.v # <<>> /\ Parse(stored.v).ok
LoadedPath(stored) == IF Usable(stored) THEN Parse(stored.v).val ELSE NoPath
LoadedOverlay(stored) == ~Usable(stored)

\* what is found under the skills-path key at a first visit: nothing, text
\* that is no JSON, or the JSON null
FirstStored == {Absent, Stored(<<"not json">>), Stored(<<"null">>)}

\* a ChatMessage
UserMessage(text) == [role |-> "user", content |-> text]
AssistantMessage(text) == [role |-> "assistant", content |-> text]
\* a string of the gateway's response as text of the page
AsText(str) == IF str = "" THEN <<>> ELSE <<str>>

\* PREBRIEF_CONFIG
Scenarios == {"email_pm", "ic_meeting", "client_call", "stock_pitch"}
DefaultModeOf(scenario) ==
  IF scenario \in {"email_pm", "client_call"} THEN "communication_coach" ELSE "pm_simulator"
IntroOf(scenario) ==
  CASE scenario = "email_pm" -> "Okay, let's get you ready to email your PM ..."
    [] scenario = "ic_meeting" -> "IC prep mode ..."
    [] scenario = "client_call" -> "Client call coming up ..."
    [] OTHER -> "Pitching an idea ..."
PreBriefContent(scenario) ==
  JoinNewline(<<<<IntroOf(scenario)>>, <<>>, <<"1) What is your main objective?">>,
                <<"2) What would success look like here ...">>,
                <<"3) Any constraints or worries I should know about ...">>, <<>>,
                <<"Answer in plain language ...">>>>)
AfterActionContent ==
  JoinNewline(<<<<"Nice - sounds like something just finished.">>, <<>>,
                <<"Let's capture the learning while it's still fresh:">>,
                <<"1) What went well?">>, <<"2) What felt uncomfortable or messy?">>,
                <<"3) If you had to do this again next week ...">>, <<>>,
                <<"Type your thoughts in a few bullet points ...">>>>)

\* MODE_CONFIG[mode].example
ExampleOf(m) ==
  CASE m = "communication_coach" -> "Here is my rough email to my PM ..."
    [] m = "pm_simulator" -> "I'm thinking about pitching a long in a Chinese clean-tech company ..."
    [] m = "workflow_helper" -> "This week I have: 1) a sector deep-dive due Thursday ..."
    [] OTHER -> "I often feel lost in team meetings ..."

\* no handleSend call is waiting
NoFlight ==
  [active |-> FALSE, mode |-> "communication_coach", newHistory |-> <<>>,
   skillsPath |-> NoPath]

RECURSIVE SumLen(_, _)
SumLen(h, ms) ==
  IF ms = {} THEN 0
  ELSE LET m == CHOOSE x \in ms : TRUE IN Len(h[m]) + SumLen(h, ms \ {m})
\* messages in the four histories together
TotalMessages(h) == SumLen(h, MentorModes)
MovedSliders(scores) == Cardinality({id \in SkillSet : scores[id] # DefaultScore})
\* after the step the histories, with the reply still awaited, hold at most n
\* messages
Within(n) == TotalMessages(histories') + (IF inflight'.active THEN 1 ELSE 0) <= n

\* the page, when only the server side is looked at: as constructed
ClientUnused ==
  /\ currentMode = "communication_coach"
  /\ histories = [m \in MentorModes |-> <<>>]
  /\ input = <<>>
  /\ loading = FALSE
  /\ errorMsg = ""
  /\ showSkillsOverlay = FALSE
  /\ skillScores = [id \in SkillSet |-> DefaultScore]
  /\ skillsPath = NoPath
  /\ interactionCount = 0
  /\ checkInPrompt = NoText
  /\ showPathModal = FALSE
  /\ showPreBriefMenu = FALSE
  /\ caseName = NoText
  /\ storage = [k \in StorageKeys |-> Absent]
  /\ inflight = NoFlight

\* ------------------------------------------------------------ the gateway
Init ==
  /\ apiKey \in KeyValues
  /\ handler = "mentor"
  /\ pc = "idle"
  /\ body = NoBody
  /\ calls = <<>>
  /\ outcome = NoOutcome
  /\ responses = <<>>
  /\ logs = <<>>
  /\ trace = <<>>
  /\ bMode = Undefined
  /\ bLens = Undefined
  /\ bTag = NoTag
  /\ bPrompt = NotBuilt
  /\ reqs = NoRequests
  /\ PathUnused
  /\ ClientUnused

Next ==
  \/ MentorPost
  \/ MentorJson
  \/ \E text \in Texts : MentorResolve(text)
  \/ \E err \in Thrown : MentorReject(err)
  \/ LegacyPost
  \/ LegacyJson
  \/ \E text \in Texts : LegacyResolve(text)
  \/ \E err \in Thrown : LegacyReject(err)

Spec == Init /\ [][Next]_vars

\* ------------------------------------- buildSystemPrompt applied on its own
\* a call of buildSystemPrompt with the arguments drawn at the start
Build ==
  /\ bPrompt = NotBuilt
  /\ bPrompt' = buildSystemPrompt(bMode, bLens, bTag)
  /\ UNCHANGED <<bMode, bLens, bTag, gatewayVars, concVars, pathVars, clientVars>>

InitBuild ==
  /\ apiKey = Undefined
  /\ handler = "mentor"
  /\ pc = "idle"
  /\ body = NoBody
  /\ calls = <<>>
  /\ outcome = NoOutcome
  /\ responses = <<>>
  /\ logs = <<>>
  /\ trace = <<>>
  /\ bMode \in ModeValues
  /\ bLens \in LensValues
  /\ bTag \in TagValues
  /\ bPrompt = NotBuilt
  /\ reqs = NoRequests
  /\ PathUnused
  /\ ClientUnused

NextBuild == Build

SpecBuild == InitBuild /\ [][NextBuild]_vars

\* ------------------------------------------- concurrent requests, interleaved
InitConc == Init

NextConc ==
  \E r \in ReqIds :
    \/ ConcPost(r)
    \/ ConcJson(r)
    \/ ConcResolve(r)
    \/ ConcReject(r)

SpecConc == InitConc /\ [][NextConc]_vars

\* ------------------------------------ generateSkillsPath, applied to any scores
GeneratePath ==
  /\ \E now \in Times : pPath' = generateSkillsPath(pScores, now)
  /\ UNCHANGED <<pScores, serverVars, clientVars>>

InitPath ==
  /\ pScores \in [SkillSet -> RawValues]
  /\ pPath = NoPath
  /\ ServerUnused
  /\ ClientUnused

NextPath == GeneratePath

SpecPath == InitPath /\ [][NextPath]_vars

\* ---------------------------------------------------- the chat page: handlers
\* The self-assessment overlay and the path modal are drawn over the page, but
\* nothing disables the page under them: its textarea and buttons keep the
\* keyboard focus order, so every handler can run while either is shown.

\* the textarea's onChange
SetInput(text) ==
  /\ input' = text
  /\ UNCHANGED <<currentMode, histories, loading, errorMsg, interactionCount, checkInPrompt,
                 showPreBriefMenu, inflight, skillsVars, caseName, storage>>

\* the example shown above an empty history
InsertExample ==
  /\ histories[currentMode] = <<>>
  /\ checkInPrompt = NoText
  /\ input' = <<ExampleOf(currentMode)>>
  /\ UNCHANGED <<currentMode, histories, loading, errorMsg, interactionCount, checkInPrompt,
                 showPreBriefMenu, inflight, skillsVars, caseName, storage>>

\* "Ask this to the mentor" of the check-in card
AskCheckIn ==
  /\ checkInPrompt # NoText
  /\ input' = checkInPrompt
  /\ checkInPrompt' = NoText
  /\ UNCHANGED <<currentMode, histories, loading, errorMsg, interactionCount,
                 showPreBriefMenu, inflight, skillsVars, caseName, storage>>

\* mutant of handleSend: a request is sent while another is awaited
handleSend_IgnoresLoading ==
  /\ IF Trim(input) = <<>>
     THEN UNCHANGED chatVars
     ELSE LET newHistory == Append(histories[currentMode], UserMessage(Trim(input)))
          IN /\ histories' = [histories EXCEPT ![currentMode] = newHistory]
             /\ input' = <<>>
             /\ loading' = TRUE
             /\ errorMsg' = ""
             /\ inflight' = [active |-> TRUE, mode |-> currentMode,
                             newHistory |-> newHistory, skillsPath |-> skillsPath]
             /\ UNCHANGED <<currentMode, interactionCount, checkInPrompt, showPreBriefMenu>>
  /\ UNCHANGED <<skillsVars, caseName, storage>>

\* mutant of handleSend: only the empty input is refused, a blank one is sent
handleSend_SendsBlank ==
  /\ IF input = <<>> \/ loading
     THEN UNCHANGED chatVars
     ELSE LET newHistory == Append(histories[currentMode], UserMessage(Trim(input)))
          IN /\ histories' = [histories EXCEPT ![currentMode] = newHistory]
             /\ input' = <<>>
             /\ loading' = TRUE
             /\ errorMsg' = ""
             /\ inflight' = [active |-> TRUE, mode |-> currentMode,
                             newHistory |-> newHistory, skillsPath |-> skillsPath]
             /\ UNCHANGED <<currentMode, interactionCount, checkInPrompt, showPreBriefMenu>>
  /\ UNCHANGED <<skillsVars, caseName, storage>>

\* handleSend up to its await of fetch; called by the send button and, through
\* handleKeyDown, by Enter in the textarea
handleSend ==
  /\ IF Trim(input) = <<>> \/ loading
     THEN UNCHANGED chatVars
     ELSE LET newHistory == Append(histories[currentMode], UserMessage(Trim(input)))
          IN /\ histories' = [histories EXCEPT ![currentMode] = newHistory]
             /\ input' = <<>>
             /\ loading' = TRUE
             /\ errorMsg' = ""
             /\ inflight' = [active |-> TRUE, mode |-> currentMode,
                             newHistory |-> newHistory, skillsPath |-> skillsPath]
             /\ UNCHANGED <<currentMode, interactionCount, checkInPrompt, showPreBriefMenu>>
  /\ UNCHANGED <<skillsVars, caseName, storage>>

\* mutant of RequestBody: the name of the tagged case is sent as caseTag
RequestBody_TagsCase(flight) ==
  [raw |-> "object",
   mode |-> JsStr(flight.mode),
   messages |-> [t |-> "array",
                 v |-> [i \in 1..Len(flight.newHistory) |->
                          [t |-> "object", role |-> JsStr(flight.newHistory[i].role),
                           content |-> JsStr(flight.newHistory[i].content)]]],
   pmLens |-> Undefined,
   caseTag |-> IF caseName = NoText THEN NoTag ELSE TagStr(caseName)]

\* what the gateway reads from the request of a handleSend call:
\* JSON.stringify({ mode, messages: newHistory })
RequestBody(flight) ==
  [raw |-> "object",
   mode |-> JsStr(flight.mode),
   messages |-> [t |-> "array",
                 v |-> [i \in 1..Len(flight.newHistory) |->
                          [t |-> "object", role |-> JsStr(flight.newHistory[i].role),
                           content |-> JsStr(flight.newHistory[i].content)]]],
   pmLens |-> Undefined,
   caseTag |-> NoTag]

\* the text of a check-in card
CheckInText(path) ==
  <<"Quick check-in on ",
    IF path.steps # <<>> THEN path.steps[1].label ELSE "your main focus area",
    ": since we started, what has changed, and where are you still stuck?">>

\* handleSend resumed with an OK response whose body parsed: data.answer
SendResolved(answer) ==
  /\ inflight.active
  /\ histories' = [histories EXCEPT ![inflight.mode] =
                     Append(inflight.newHistory, AssistantMessage(AsText(answer)))]
  /\ interactionCount' = interactionCount + 1
  /\ checkInPrompt' = IF inflight.skillsPath # NoPath /\ (interactionCount + 1) % 5 = 0
                      THEN CheckInText(inflight.skillsPath)
                      ELSE checkInPrompt
  /\ loading' = FALSE
  /\ inflight' = NoFlight
  /\ UNCHANGED <<currentMode, input, errorMsg, showPreBriefMenu, skillsVars, caseName, storage>>

\* mutant of SendNotOk: the failed send is rolled back to the history before it
SendNotOk_RollsBack(error) ==
  /\ inflight.active
  /\ errorMsg' = IF error = "" THEN "Request failed" ELSE error
  /\ histories' = [histories EXCEPT ![inflight.mode] =
                      SubSeq(inflight.newHistory, 1, Len(inflight.newHistory) - 1)]
  /\ loading' = FALSE
  /\ inflight' = NoFlight
  /\ UNCHANGED <<currentMode, input, interactionCount, checkInPrompt,
                 showPreBriefMenu, skillsVars, caseName, storage>>

\* handleSend resumed with a response that is not OK: data.error || "Request failed"
SendNotOk(error) ==
  /\ inflight.active
  /\ errorMsg' = IF error = "" THEN "Request failed" ELSE error
  /\ loading' = FALSE
  /\ inflight' = NoFlight
  /\ UNCHANGED <<currentMode, histories, input, interactionCount, checkInPrompt,
                 showPreBriefMenu, skillsVars, caseName, storage>>

\* mutant of SendThrew: the catch block without the finally block
SendThrew_NoFinally ==
  /\ inflight.active
  /\ errorMsg' = "Network error"
  /\ inflight' = NoFlight
  /\ UNCHANGED <<currentMode, histories, input, loading, interactionCount, checkInPrompt,
                 showPreBriefMenu, skillsVars, caseName, storage>>

\* fetch rejected, or the body of the response is no JSON: the catch and finally blocks
SendThrew ==
  /\ inflight.active
  /\ errorMsg' = "Network error"
  /\ loading' = FALSE
  /\ inflight' = NoFlight
  /\ UNCHANGED <<currentMode, histories, input, interactionCount, checkInPrompt,
                 showPreBriefMenu, skillsVars, caseName, storage>>

\* mutant of handleModeChange: the mode left loses its history
handleModeChange_DropsHistory(newMode) ==
  /\ IF newMode = currentMode
     THEN UNCHANGED <<currentMode, errorMsg, histories>>
     ELSE /\ currentMode' = newMode
          /\ errorMsg' = ""
          /\ histories' = [histories EXCEPT ![currentMode] = <<>>]
  /\ UNCHANGED <<input, loading, interactionCount, checkInPrompt,
                 showPreBriefMenu, inflight, skillsVars, caseName, storage>>

handleModeChange(newMode) ==
  /\ IF newMode = currentMode
     THEN UNCHANGED <<currentMode, errorMsg>>
     ELSE currentMode' = newMode /\ errorMsg' = ""
  /\ UNCHANGED <<histories, input, loading, interactionCount, checkInPrompt,
                 showPreBriefMenu, inflight, skillsVars, caseName, storage>>

\* the "Pre-brief" button
TogglePreBriefMenu ==
  /\ showPreBriefMenu' = ~showPreBriefMenu
  /\ UNCHANGED <<currentMode, histories, input, loading, errorMsg, interactionCount,
                 checkInPrompt, inflight, skillsVars, caseName, storage>>

\* mutant of handlePreBrief: the mode is set through handleModeChange, which
\* clears the error message
handlePreBrief_ClearsError(scenario) ==
  /\ showPreBriefMenu
  /\ currentMode' = DefaultModeOf(scenario)
  /\ errorMsg' = IF DefaultModeOf(scenario) = currentMode THEN errorMsg ELSE ""
  /\ showPreBriefMenu' = FALSE
  /\ histories' = [histories EXCEPT ![DefaultModeOf(scenario)] =
                     Append(@, AssistantMessage(PreBriefContent(scenario)))]
  /\ UNCHANGED <<input, loading, interactionCount, checkInPrompt, inflight,
                 skillsVars, caseName, storage>>

\* a scenario of the pre-brief menu
handlePreBrief(scenario) ==
  /\ showPreBriefMenu
  /\ currentMode' = DefaultModeOf(scenario)
  /\ showPreBriefMenu' = FALSE
  /\ histories' = [histories EXCEPT ![DefaultModeOf(scenario)] =
                     Append(@, AssistantMessage(PreBriefContent(scenario)))]
  /\ UNCHANGED <<input, loading, errorMsg, interactionCount, checkInPrompt, inflight,
                 skillsVars, caseName, storage>>

handleAfterAction ==
  /\ histories' = [histories EXCEPT ![currentMode] =
                     Append(@, AssistantMessage(AfterActionContent))]
  /\ UNCHANGED <<currentMode, input, loading, errorMsg, interactionCount, checkInPrompt,
                 showPreBriefMenu, inflight, skillsVars, caseName, storage>>

\* handleTagCase, with what window.prompt returned: null or a string
handleTagCase(name) ==
  /\ IF name.t = "string" /\ name.v # <<>> /\ Trim(name.v) # <<>>
     THEN /\ caseName' = Trim(name.v)
          /\ storage' = [storage EXCEPT ![CaseKey] = Stored(Trim(name.v))]
     ELSE UNCHANGED <<caseName, storage>>
  /\ UNCHANGED <<chatVars, skillsVars>>

\* a slider of the self-assessment form: Number(e.target.value)
SliderChange(id, raw) ==
  /\ showSkillsOverlay
  /\ MovedSliders([skillScores EXCEPT ![id] = raw]) <= MaxMovedSliders
  /\ skillScores' = [skillScores EXCEPT ![id] = raw]
  /\ UNCHANGED <<chatVars, showSkillsOverlay, skillsPath, showPathModal, caseName, storage>>

\* "Skip for now"
SkipOverlay_StoresDefault ==
  /\ showSkillsOverlay
  /\ showSkillsOverlay' = FALSE
  /\ storage' =
       [storage EXCEPT ![PathKey] =
          Stored(Stringify(generateSkillsPath(skillScores, FirstTime)))]
  /\ UNCHANGED <<chatVars, skillScores, skillsPath, showPathModal, caseName>>

SkipOverlay ==
  /\ showSkillsOverlay
  /\ showSkillsOverlay' = FALSE
  /\ UNCHANGED <<chatVars, skillScores, skillsPath, showPathModal, caseName, storage>>

\* "Generate path"
handleSkillsSubmit(now) ==
  /\ showSkillsOverlay
  /\ skillsPath' = generateSkillsPath(skillScores, now)
  /\ showSkillsOverlay' = FALSE
  /\ storage' = [storage EXCEPT ![PathKey] = Stored(Stringify(generateSkillsPath(skillScores, now)))]
  /\ UNCHANGED <<chatVars, skillScores, showPathModal, caseName>>

\* "View details" of the path card, and the two buttons closing the modal
ViewDetails ==
  /\ skillsPath # NoPath
  /\ showPathModal' = TRUE
  /\ UNCHANGED <<chatVars, showSkillsOverlay, skillScores, skillsPath, caseName, storage>>
ClosePathModal ==
  /\ skillsPath # NoPath
  /\ showPathModal
  /\ showPathModal' = FALSE
  /\ UNCHANGED <<chatVars, showSkillsOverlay, skillScores, skillsPath, caseName, storage>>

\* the page is mounted with what localStorage holds: the state of the
\* useState calls, then the effect
Mounted(store) ==
  /\ currentMode = "communication_coach"
  /\ histories = [m \in MentorModes |-> <<>>]
  /\ input = <<>>
  /\ loading = FALSE
  /\ errorMsg = ""
  /\ skillScores = [id \in SkillSet |-> DefaultScore]
  /\ interactionCount = 0
  /\ checkInPrompt = NoText
  /\ showPathModal = FALSE
  /\ showPreBriefMenu = FALSE
  /\ caseName = NoText
  /\ inflight = NoFlight
  /\ skillsPath = LoadedPath(store[PathKey])
  /\ showSkillsOverlay = LoadedOverlay(store[PathKey])
  /\ storage = store

\* the page is loaded again: a new session over the same localStorage
Reload ==
  /\ currentMode' = "communication_coach"
  /\ histories' = [m \in MentorModes |-> <<>>]
  /\ input' = <<>>
  /\ loading' = FALSE
  /\ errorMsg' = ""
  /\ skillScores' = [id \in SkillSet |-> DefaultScore]
  /\ interactionCount' = 0
  /\ checkInPrompt' = NoText
  /\ showPathModal' = FALSE
  /\ showPreBriefMenu' = FALSE
  /\ caseName' = NoText
  /\ inflight' = NoFlight
  /\ skillsPath' = LoadedPath(storage[PathKey])
  /\ showSkillsOverlay' = LoadedOverlay(storage[PathKey])
  /\ UNCHANGED storage

\* what is typed, what window.prompt returns, what the gateway answers
InputValues == {<<>>, <<" ">>, <<" ", "Can you review my note?", "\n">>}
PromptResults == {Absent, Stored(<<>>), Stored(<<" ">>), Stored(<<" ", "Acme", " ">>)}
Answers == {"Here is how I would phrase it."}
\* the scenarios tried in the conversation: one for each target mode
TriedScenarios == {"email_pm", "ic_meeting"}
\* a skills path stored by an earlier session
EarlierPath == generateSkillsPath([id \in SkillSet |-> DefaultScore], "2026-02-01T09:00:00.000Z")
Errors == {MissingKeyError, ""}

\* ----------------------------------------------- the self-assessment and storage
InitSkills ==
  /\ ServerUnused
  /\ PathUnused
  /\ \E stored \in FirstStored : Mounted([k \in StorageKeys |-> IF k = PathKey THEN stored ELSE Absent])

NextSkills ==
  \/ \E id \in SkillSet, raw \in RawValues : SliderChange(id, raw) /\ UNCHANGED <<serverVars, pathVars>>
  \/ SkipOverlay /\ UNCHANGED <<serverVars, pathVars>>
  \/ \E now \in Times : handleSkillsSubmit(now) /\ UNCHANGED <<serverVars, pathVars>>
  \/ ViewDetails /\ UNCHANGED <<serverVars, pathVars>>
  \/ ClosePathModal /\ UNCHANGED <<serverVars, pathVars>>
  \/ Reload /\ UNCHANGED <<serverVars, pathVars>>

SpecSkills == InitSkills /\ [][NextSkills]_vars

\* ------------------------------------------------------------ the conversation
InitChat ==
  /\ ServerUnused
  /\ PathUnused
  /\ \E stored \in {Absent, Stored(Stringify(EarlierPath))} :
       Mounted([k \in StorageKeys |-> IF k = PathKey THEN stored ELSE Absent])

NextChat ==
  \/ SkipOverlay /\ UNCHANGED <<serverVars, pathVars>>
  \/ \E text \in InputValues : SetInput(text) /\ UNCHANGED <<serverVars, pathVars>>
  \/ handleSend /\ Within(MaxMessages) /\ UNCHANGED <<serverVars, pathVars>>
  \/ \E answer \in Answers : SendResolved(answer) /\ UNCHANGED <<serverVars, pathVars>>
  \/ \E error \in Errors : SendNotOk(error) /\ UNCHANGED <<serverVars, pathVars>>
  \/ SendThrew /\ UNCHANGED <<serverVars, pathVars>>
  \/ \E m \in MentorModes : handleModeChange(m) /\ UNCHANGED <<serverVars, pathVars>>
  \/ TogglePreBriefMenu /\ UNCHANGED <<serverVars, pathVars>>
  \/ \E scenario \in TriedScenarios : handlePreBrief(scenario) /\ Within(MaxMessages) /\ UNCHANGED <<serverVars, pathVars>>
  \/ handleAfterAction /\ Within(MaxMessages) /\ UNCHANGED <<serverVars, pathVars>>

SpecChat == InitChat /\ [][NextChat]_vars

\* the request that handleSend awaits ends: fetch settles, by a response or by
\* a network error, and the handler is resumed
RequestEnds ==
  /\ \/ \E answer \in Answers : SendResolved(answer)
     \/ \E error \in Errors : SendNotOk(error)
     \/ SendThrew
  /\ UNCHANGED <<serverVars, pathVars>>

\* the conversation, with every request ending
SpecChatLive == SpecChat /\ WF_vars(RequestEnds)

\* ===================================================================== claims
KeyConfigured == apiKey = JsStr("gsk_live")
KeyAbsent == apiKey \in {Undefined, JsStr("")}
Started == pc # "idle"
IsError(r, status, message) ==
  r.status = status /\ r.body.error = JsStr(message) /\ r.body.answer = Undefined

\* C1: with GROQ_API_KEY unset or empty, a request, whatever its body, is
\* answered with status 500 and an error naming the missing key, and
\* generateText is never called.
C1_NoKeyIsConfigError ==
  (KeyAbsent /\ Started) =>
     /\ pc = "done"
     /\ calls = <<>>
     /\ Len(responses) = 1
     /\ IsError(responses[1], 500,
                IF handler = "mentor" THEN MissingKeyError ELSE LegacyMissingKeyError)

C1_Witness ==
  /\ apiKey = JsStr("")
  /\ handler = "mentor"
  /\ body.raw = "unparseable"
  /\ pc = "done"
  /\ Len(responses) = 1

\* C2: with the key configured, a request to the mentor route whose messages
\* field is the empty list is answered with status 400 and an {error} body,
\* and generateText is not called.
EmptyList == [t |-> "array", v |-> <<>>]

BlockOf(m) ==
  CASE m = "communication_coach" -> CommunicationCoachBlock
    [] m = "pm_simulator" -> PmSimulatorBlock
    [] m = "workflow_helper" -> WorkflowHelperBlock
    [] m = "safe_qa" -> SafeQaBlock
Built == bPrompt # NotBuilt

\* C4 as stated: for a recognized mode and any flag and case label, the built
\* prompt contains the base persona and the mode's block and none of the
\* other three blocks.
C4_OwnBlockOnly ==
  \A m \in MentorModes :
    (Built /\ bMode = JsStr(m)) =>
       /\ Contains(bPrompt, basePersona)
       /\ Contains(bPrompt, BlockOf(m))
       /\ \A o \in MentorModes \ {m} : ~Contains(bPrompt, BlockOf(o))

\* C4 amended: for a recognized mode and any flag and case label, the built
\* prompt contains the base persona and the mode's block, and it contains
\* another mode's block only if the case label itself contains that block.
C4_OwnBlockOnlyOutsideLabel ==
  \A m \in MentorModes :
    (Built /\ bMode = JsStr(m)) =>
       /\ Contains(bPrompt, basePersona)
       /\ Contains(bPrompt, BlockOf(m))
       /\ \A o \in MentorModes \ {m} :
            Contains(bPrompt, BlockOf(o)) => Contains(bTag.v, BlockOf(o))

C4_Witness ==
  /\ Built
  /\ bMode = JsStr("workflow_helper")
  /\ bLens = JsTrue
  /\ bTag = TagStr(<<"Acme", " ">>)
  /\ Contains(bPrompt, WorkflowHelperBlock)

\* C6 as stated: with the flag true the built prompt contains the ON directive
\* and not the OFF directive, with the flag false the OFF directive and not
\* the ON directive; exactly one of the two is in every built prompt.
C6_OneDirective ==
  Built =>
    /\ bLens = JsTrue => Contains(bPrompt, LensOnDirective) /\ ~Contains(bPrompt, LensOffDirective)
    /\ bLens = JsFalse => Contains(bPrompt, LensOffDirective) /\ ~Contains(bPrompt, LensOnDirective)
    /\ Contains(bPrompt, LensOnDirective) # Contains(bPrompt, LensOffDirective)

\* C6 amended: with the flag true the built prompt contains the ON directive,
\* with the flag false the OFF directive, and it contains the other directive
\* only if the case label itself contains that directive; so exactly one of the
\* two is in every prompt built with a label that contains neither.
C6_OneDirectiveOutsideLabel ==
  Built =>
    /\ bLens = JsTrue =>
         /\ Contains(bPrompt, LensOnDirective)
         /\ Contains(bPrompt, LensOffDirective) => Contains(bTag.v, LensOffDirective)
    /\ bLens = JsFalse =>
         /\ Contains(bPrompt, LensOffDirective)
         /\ Contains(bPrompt, LensOnDirective) => Contains(bTag.v, LensOnDirective)
    /\ (~Contains(bTag.v, LensOnDirective) /\ ~Contains(bTag.v, LensOffDirective)) =>
         Contains(bPrompt, LensOnDirective) # Contains(bPrompt, LensOffDirective)

C6_Witness ==
  /\ Built
  /\ bLens = JsFalse
  /\ bMode = JsStr("pm_simulator")
  /\ bTag = TagStr(<<"Acme">>)
  /\ Contains(bPrompt, LensOffDirective)
  /\ ~Contains(bPrompt, LensOnDirective)

\* a mode value that is present (truthy) and is none of the four modes
UnrecognizedMode(m) == m \in {JsStr("subscribe"), JsStr("constructor"), JsNum("5")}
NonEmptyList(ms) == ms.t = "array" /\ Len(ms.v) > 0

WellFormed(e) == e.t = "object" /\ e.role.t = "string" /\ e.content.t = "string"
Malformed(b) ==
  \/ b.raw = "unparseable"
  \/ b.raw = "object" /\ b.messages.t # "array"
  \/ b.raw = "object" /\ b.messages.t = "array"
       /\ \E i \in 1..Len(b.messages.v) : ~WellFormed(b.messages.v[i])

\* C7: with the key configured, a malformed body is answered by the mentor
\* route with status 400, and generateText is not called.
C7_MalformedIsClientError ==
  (handler = "mentor" /\ KeyConfigured /\ Started /\ Malformed(body)) =>
     /\ calls = <<>>
     /\ \A i \in 1..Len(responses) : responses[i].status = 400

\* C8: with the key configured and a non-empty messages list, a request to
\* the mentor route whose mode is missing or empty is answered with status
\* 400 and generateText is not called: no fallback for a missing mode.
MissingMode(m) == m \in {Undefined, Null, JsStr(""), JsNum("0"), JsFalse}

PassesValidation(b) ==
  b.raw \in {"object", "number"} /\ Truthy(Field(b, "mode"))
    /\ NonEmptyList(Field(b, "messages"))

\* C9: in a request to the mentor route generateText is called at most once:
\* once when the key is configured and validation passes, never otherwise,
\* and no call follows a failure of generateText.
C9_OneCallPerRequest ==
  handler = "mentor" =>
     /\ Len(calls) <= 1
     /\ pc \in {"generate", "done"} =>
          Len(calls) = IF KeyConfigured /\ PassesValidation(body) THEN 1 ELSE 0
     /\ \A i, j \in 1..Len(trace) : (trace[i] = "throw" /\ trace[j] = "call") => j < i

\* C10: a request ends with exactly one response: {answer} with status 200,
\* the answer being the text generateText returned, or {error} with status
\* 400 or 500; never both fields, and never status 200 on a failure.
C10_OneResponse ==
  /\ Len(responses) <= 1
  /\ (pc = "done" \/ outcome.kind # "none") => Len(responses) = 1
  /\ Len(responses) = 1 => pc = "done"
  /\ \A i \in 1..Len(responses) :
       LET r == responses[i]
       IN \/ /\ r.status = 200
             /\ outcome.kind = "text"
             /\ r.body.answer = JsStr(outcome.text)
             /\ r.body.error = Undefined
          \/ /\ r.status \in {400, 500}
             /\ outcome.kind \in {"none", "throw"}
             /\ r.body.answer = Undefined
             /\ r.body.error.t = "string"

C10_Witness ==
  /\ handler = "mentor"
  /\ pc = "done"
  /\ outcome.kind = "text"
  /\ outcome.text = "Here is how I would phrase it."
  /\ responses = <<Json(AnswerBody("Here is how I would phrase it."), 200)>>

C12_CaseContextAndOrder ==
  Built =>
    LET labelled == bTag.t = "string" /\ bTag.v # <<>>
        sentence == <<CasePrefix>> \o bTag.v \o <<CaseSuffix>>
    IN /\ Contains(bPrompt, sentence) <=> labelled
       /\ Contains(bPrompt, <<CasePrefix>>) <=> labelled
       /\ ~labelled => bPrompt = buildSystemPrompt(bMode, bLens, NoTag)
       /\ \E block \in {BlockOf(m) : m \in MentorModes} :
            \E directive \in {LensOnDirective, LensOffDirective} :
              bPrompt = basePersona \o <<"\n">>
                          \o (IF labelled THEN sentence \o <<"\n">> ELSE <<>>)
                          \o block \o <<"\n">> \o directive

C12_Witness ==
  /\ Built
  /\ bTag = TagStr(<<"Acme", " ">>)
  /\ bMode = JsStr("safe_qa")
  /\ bLens = JsFalse
  /\ bPrompt = basePersona \o <<"\n", CasePrefix, "Acme", " ", CaseSuffix, "\n">>
                 \o SafeQaBlock \o <<"\n">> \o LensOffDirective

\* C13: a request to the mentor route that ends in an error response has
\* written a console.error line before the response is returned.
C13_ErrorsAreLogged ==
  handler = "mentor" =>
    \A i \in 1..Len(trace) :
      (trace[i] = "response" /\ responses[1].status # 200) =>
         \E j \in 1..(i - 1) : trace[j] = "log"

\* what a request to handler h with body b is after each of its steps when it
\* is the only request
AloneAfterPost(h, b) == PostStep(h, b)
AloneAfterJson(h, b) ==
  IF AloneAfterPost(h, b).pc = "json" THEN JsonStep(AloneAfterPost(h, b))
  ELSE AloneAfterPost(h, b)
AloneAfterGenerate(h, b, out) ==
  IF AloneAfterJson(h, b).pc # "generate" \/ out.kind = "none" THEN AloneAfterJson(h, b)
  ELSE IF out.kind = "text" THEN ResolveStep(AloneAfterJson(h, b), out.text)
  ELSE RejectStep(AloneAfterJson(h, b), out.err)

\* C14: with requests served concurrently in any interleaving, what a request
\* has done (its generateText call, its response, its log) is what it does
\* when it is the only request, with the same body, key and generateText
\* result; so two requests with equal inputs end equal, whatever the other
\* requests did in between.
C14_RequestsIndependent ==
  \A r \in ReqIds :
    /\ reqs[r].pc # "idle" =>
         reqs[r] \in {AloneAfterPost(reqs[r].handler, reqs[r].body),
                      AloneAfterJson(reqs[r].handler, reqs[r].body),
                      AloneAfterGenerate(reqs[r].handler, reqs[r].body, reqs[r].outcome)}
    /\ reqs[r].pc = "done" =>
         reqs[r] = AloneAfterGenerate(reqs[r].handler, reqs[r].body, reqs[r].outcome)
    /\ \A o \in ReqIds :
         (/\ reqs[r].pc = "done" /\ reqs[o].pc = "done"
          /\ reqs[r].handler = reqs[o].handler /\ reqs[r].body = reqs[o].body
          /\ reqs[r].outcome = reqs[o].outcome)
         => (reqs[r].responses = reqs[o].responses /\ reqs[r].calls = reqs[o].calls)

\* every step is a step of one request and leaves the other requests and the
\* key as they were
StepsOfOneRequest ==
  [][/\ apiKey' = apiKey
     /\ \E r \in ReqIds : \A o \in ReqIds \ {r} : reqs'[o] = reqs[o]]_vars

\* two requests with different bodies, interleaved, one answered and one failed
C14_Witness ==
  /\ reqs[1].pc = "done"
  /\ reqs[2].pc = "done"
  /\ reqs[1].handler = "mentor"
  /\ reqs[2].handler = "mentor"
  /\ reqs[1].body.mode = JsStr("communication_coach")
  /\ reqs[2].body.mode = JsStr("subscribe")
  /\ reqs[1].outcome.kind = "throw"
  /\ reqs[2].outcome.kind = "text"
  /\ reqs[1].responses[1].status = 500
  /\ reqs[2].responses[1].status = 200
  /\ Contains(reqs[2].calls[1].system, <<CaseSuffix>>)
  /\ ~Contains(reqs[1].calls[1].system, <<CaseSuffix>>)

\* --------------------------------- every handler of the page, over one storage
\* the modes chosen when all handlers are run together; the text sent is the
\* example of the mode, and typing clears the textarea
VisitedModes == {"communication_coach", "pm_simulator"}

InitClient ==
  /\ ServerUnused
  /\ PathUnused
  /\ Mounted([k \in StorageKeys |-> Absent])

NextClient ==
  \/ SliderChange("data", MinScore) /\ UNCHANGED <<serverVars, pathVars>>
  \/ SkipOverlay /\ UNCHANGED <<serverVars, pathVars>>
  \/ handleSkillsSubmit(FirstTime) /\ UNCHANGED <<serverVars, pathVars>>
  \/ ViewDetails /\ UNCHANGED <<serverVars, pathVars>>
  \/ ClosePathModal /\ UNCHANGED <<serverVars, pathVars>>
  \/ Reload /\ UNCHANGED <<serverVars, pathVars>>
  \/ SetInput(<<>>) /\ UNCHANGED <<serverVars, pathVars>>
  \/ InsertExample /\ UNCHANGED <<serverVars, pathVars>>
  \/ handleSend /\ Within(MaxMessages) /\ UNCHANGED <<serverVars, pathVars>>
  \/ \E answer \in Answers : SendResolved(answer) /\ UNCHANGED <<serverVars, pathVars>>
  \/ SendNotOk("") /\ UNCHANGED <<serverVars, pathVars>>
  \/ SendThrew /\ UNCHANGED <<serverVars, pathVars>>
  \/ \E m \in VisitedModes : handleModeChange(m) /\ UNCHANGED <<serverVars, pathVars>>
  \/ TogglePreBriefMenu /\ UNCHANGED <<serverVars, pathVars>>
  \/ handlePreBrief("ic_meeting") /\ Within(MaxMessages) /\ UNCHANGED <<serverVars, pathVars>>
  \/ handleAfterAction /\ Within(MaxMessages) /\ UNCHANGED <<serverVars, pathVars>>
  \/ \E name \in PromptResults : handleTagCase(name) /\ UNCHANGED <<serverVars, pathVars>>

SpecClient == InitClient /\ [][NextClient]_vars

\* ------------------------------------------------- the interaction counter
\* the number of successful exchanges followed: enough for one check-in
MaxExchanges == 5
\* the messages followed besides those of the exchanges: a user message that
\* got no reply, a pre-brief or an after-action message
MaxExtraMessages == 1
ExtraMessages(h, count, flight) ==
  TotalMessages(h) - 2 * count - (IF flight.active THEN 1 ELSE 0)
FewExtras == ExtraMessages(histories', interactionCount', inflight') <= MaxExtraMessages
CountedInput == <<"Can you review my note?">>

InitCount == InitChat

NextCount ==
  \/ SkipOverlay /\ UNCHANGED <<serverVars, pathVars>>
  \/ handleSkillsSubmit(FirstTime) /\ UNCHANGED <<serverVars, pathVars>>
  \/ SetInput(CountedInput) /\ UNCHANGED <<serverVars, pathVars>>
  \/ AskCheckIn /\ UNCHANGED <<serverVars, pathVars>>
  \/ handleSend /\ interactionCount < MaxExchanges /\ FewExtras /\ UNCHANGED <<serverVars, pathVars>>
  \/ \E answer \in Answers : SendResolved(answer) /\ UNCHANGED <<serverVars, pathVars>>
  \/ SendNotOk("") /\ FewExtras /\ UNCHANGED <<serverVars, pathVars>>
  \/ SendThrew /\ FewExtras /\ UNCHANGED <<serverVars, pathVars>>
  \/ \E m \in VisitedModes : handleModeChange(m) /\ UNCHANGED <<serverVars, pathVars>>
  \/ TogglePreBriefMenu /\ UNCHANGED <<serverVars, pathVars>>
  \/ handlePreBrief("ic_meeting") /\ FewExtras /\ UNCHANGED <<serverVars, pathVars>>
  \/ handleAfterAction /\ FewExtras /\ UNCHANGED <<serverVars, pathVars>>

SpecCount == InitCount /\ [][NextCount]_vars

\* ------------------------------------------------------- the skills path
PathBuilt == pPath # NoPath
InRange == \A id \in SkillSet : pScores[id] \in Scores
StepOneNames(id) == \E i \in 1..Len(pPath.steps[1].description) :
                      pPath.steps[1].description[i] = SkillLabel(id)

\* C16: for scores in 1..5, the description of step 1 names two skills, and
\* no skill it leaves out has a lower score than one it names.
C16_NamesTwoWeakest ==
  (PathBuilt /\ InRange) =>
    \E a, b \in SkillSet :
      /\ a # b
      /\ StepOneNames(a)
      /\ StepOneNames(b)
      /\ \A c \in SkillSet \ {a, b} : pScores[c] >= pScores[a] /\ pScores[c] >= pScores[b]

\* C17: the path has three steps, of weeks 1, 2, 3 and labels Communication
\* Coach, PM Simulator, Workflow Helper; steps 2 and 3 are the same for all
\* scores, and of step 1 only the description depends on them.
C17_FixedThreeSteps ==
  PathBuilt =>
    /\ Len(pPath.steps) = 3
    /\ \A i \in 1..3 : pPath.steps[i].week = i
    /\ pPath.steps[1].label = "Communication Coach"
    /\ pPath.steps[2] = [week |-> 2, label |-> "PM Simulator", description |-> <<StepTwoText>>]
    /\ pPath.steps[3] =
         [week |-> 3, label |-> "Workflow Helper", description |-> <<StepThreeText>>]
    /\ \E id \in SkillSet :
         pPath.steps[1].description =
           <<StepOnePrefix, DQuote, SkillLabel(id), DQuote, StepOneSuffix>>

\* two inputs with different weakest skills have been given their paths
C17_Witness ==
  /\ PathBuilt
  /\ pScores["time"] < pScores["data"]
  /\ StepOneNames("time")
  /\ pPath.steps[2].description = <<StepTwoText>>
  /\ Len(pPath.steps) = 3

\* ------------------------------------------------------------ the conversation
IsPrefix(a, b) == Len(a) <= Len(b) /\ SubSeq(b, 1, Len(a)) = a

\* C15: in every step of the page (send, reply, failure, mode change,
\* pre-brief, after-action) the history of every mode only grows at its end:
\* what it held before the step is a prefix of what it holds after.
C15_HistoriesAppendOnly ==
  [][\A m \in MentorModes : IsPrefix(histories[m], histories'[m])]_vars

Unparsable(stored) == stored.t = "string" /\ ~Parse(stored.v).ok

\* C20: a page load in a session that has a skills path (generated in it by
\* the form, which stored it, or read at its own load) reads back an equal
\* path and shows no overlay; a page load with nothing stored, or with a
\* stored value that does not parse, leaves the path unset and shows the
\* overlay; "Skip for now" changes neither the storage nor the path, so the
\* next load shows the overlay again.
C20_PersistenceRoundTrips ==
  [][/\ (\E now \in Times : handleSkillsSubmit(now)) =>
          /\ skillsPath' # NoPath
          /\ storage'[PathKey] = Stored(Stringify(skillsPath'))
     /\ Reload =>
          /\ skillsPath # NoPath => (skillsPath' = skillsPath /\ ~showSkillsOverlay')
          /\ (storage[PathKey] = Absent \/ Unparsable(storage[PathKey])) =>
               (skillsPath' = NoPath /\ showSkillsOverlay')
     /\ SkipOverlay =>
          /\ storage' = storage
          /\ skillsPath' = skillsPath
          /\ (skillsPath = NoPath => LoadedOverlay(storage'[PathKey]))]_vars

\* a session after the one in which the form was submitted with the time
\* skill lowest: the sliders are back at their initial value, the path is the
\* stored one, the overlay is not shown
C20_Witness ==
  /\ skillScores = [id \in SkillSet |-> DefaultScore]
  /\ skillsPath # NoPath
  /\ skillsPath.steps[1].description[3] = SkillLabel("time")
  /\ storage[PathKey] = Stored(Stringify(skillsPath))
  /\ ~showSkillsOverlay

C22_OneRequestInFlight ==
  [][/\ loading' = inflight'.active
     /\ (inflight'.active /\ inflight' # inflight) =>
          (~inflight.active /\ ~loading /\ Trim(input) # <<>> /\ handleSend)
     /\ (handleSend /\ (loading \/ Trim(input) = <<>>)) =>
          UNCHANGED <<histories, input, inflight, loading, errorMsg>>]_vars

\* a request is awaited and the user has typed the next message
C22_Witness ==
  /\ loading
  /\ inflight.active
  /\ Trim(input) # <<>>
  /\ Len(histories[inflight.mode]) = 1

\* C23: when a reply arrives while a mode other than the one the request was
\* sent from is selected, it is appended to the history of the send-time mode,
\* directly after the user message that caused it, and the history of the
\* selected mode is not changed.
C23_ReplyGoesToSendTimeMode ==
  [][\A answer \in Answers :
       (SendResolved(answer) /\ currentMode # inflight.mode) =>
         /\ histories'[inflight.mode] =
              Append(histories[inflight.mode], AssistantMessage(AsText(answer)))
         /\ histories[inflight.mode][Len(histories[inflight.mode])] =
              inflight.newHistory[Len(inflight.newHistory)]
         /\ histories'[currentMode] = histories[currentMode]]_vars

\* C24: whenever a request has been sent (loading is true) the loading flag
\* becomes false again, whichever way the request ends, and with it the guard
\* of handleSend that refuses a further send.
C24_LoadingClears == loading ~> ~loading

\* a send has ended by the catch block and the page is ready for the next
C24_Witness ==
  /\ ~loading
  /\ ~inflight.active
  /\ errorMsg = "Network error"
  /\ Len(histories[currentMode]) = 1

\* the last message of the request that is awaited
LastSent == inflight.newHistory[Len(inflight.newHistory)]

\* C25: every request the page sends carries one of the four modes and a
\* messages list that is not empty and ends with a user message whose content
\* is not blank, so the gateway's test of mode and messages does not reject it.
C25_RequestsPassValidation ==
  inflight.active =>
    /\ inflight.mode \in MentorModes
    /\ inflight.newHistory # <<>>
    /\ LastSent.role = "user"
    /\ Trim(LastSent.content) # <<>>
    /\ ~InvalidBody(Field(RequestBody(inflight), "mode"),
                    Field(RequestBody(inflight), "messages"))

\* a request sent after an after-action insertion, from an input with blanks around it
C25_Witness ==
  /\ inflight.active
  /\ Len(inflight.newHistory) = 2
  /\ inflight.newHistory[1].content = AfterActionContent
  /\ LastSent.role = "user"
  /\ input = <<>>

\* the prompt the gateway builds for the request that is awaited
PromptOfRequest ==
  buildSystemPrompt(Field(RequestBody(inflight), "mode"), PmLensOf(RequestBody(inflight)),
                    CaseTagOf(RequestBody(inflight)))

\* C28: no request of the page carries pmLens or caseTag, also after a case
\* has been tagged, so the gateway builds its prompt with the PM LENS = OFF
\* directive and without the case sentence.
C28_NoLensNoCaseSent ==
  inflight.active =>
    /\ RequestBody(inflight).pmLens = Undefined
    /\ RequestBody(inflight).caseTag = NoTag
    /\ Contains(PromptOfRequest, LensOffDirective)
    /\ ~Contains(PromptOfRequest, LensOnDirective)
    /\ ~Contains(PromptOfRequest, <<CasePrefix>>)

\* a request sent after the case was tagged
C28_Witness ==
  /\ inflight.active
  /\ caseName = <<"Acme">>
  /\ storage[CaseKey] = Stored(<<"Acme">>)

\* a request ends in failure: the response is not OK, or the catch block runs
SendFails == SendThrew \/ \E error \in Errors : SendNotOk(error)

\* a call of handleSend that passes its guard and sends a request
Sends == handleSend /\ ~inflight.active /\ inflight'.active

\* C26: when a send fails the user message stays in the history of the
\* send-time mode, no history changes, the error message is not empty, the
\* interaction counter and the check-in prompt are unchanged; and a request
\* sent afterwards forwards the whole history of its mode, the unanswered
\* message included, followed by the new user message.
C26_FailedSendKeepsUserMessage ==
  [][/\ SendFails =>
          /\ \E i \in 1..Len(histories'[inflight.mode]) :
                histories'[inflight.mode][i] = LastSent
          /\ histories' = histories
          /\ errorMsg' # ""
          /\ interactionCount' = interactionCount
          /\ checkInPrompt' = checkInPrompt
     /\ Sends =>
          /\ IsPrefix(histories[currentMode], inflight'.newHistory)
          /\ Len(inflight'.newHistory) = Len(histories[currentMode]) + 1]_vars

\* a second message is sent after the first one failed: both are forwarded
C26_Witness ==
  /\ inflight.active
  /\ Len(inflight.newHistory) = 2
  /\ inflight.newHistory[1].role = "user"
  /\ inflight.newHistory[2].role = "user"
  /\ interactionCount = 0

\* the three questions of every pre-brief message
PreBriefQuestions ==
  <<"1) What is your main objective?", "\n", "2) What would success look like here ...",
    "\n", "3) Any constraints or worries I should know about ...">>

\* history h is history g followed by one assistant message
OneAssistantMessageAdded(g, h) ==
  /\ Len(h) = Len(g) + 1
  /\ IsPrefix(g, h)
  /\ h[Len(h)].role = "assistant"

\* C29: handlePreBrief(scenario) selects the default mode of the scenario,
\* closes the pre-brief menu and appends one assistant message, holding the
\* intro of the scenario and the three questions, to the history of that mode;
\* the other histories, the input, the loading flag, the error message and the
\* request in flight are unchanged.  handleAfterAction appends one assistant
\* message to the history of the selected mode and changes nothing else.
C29_InsertionsFrame ==
  [][/\ \A scenario \in Scenarios :
          handlePreBrief(scenario) =>
            /\ currentMode' = DefaultModeOf(scenario)
            /\ ~showPreBriefMenu'
            /\ OneAssistantMessageAdded(histories[currentMode'], histories'[currentMode'])
            /\ Contains(histories'[currentMode'][Len(histories'[currentMode'])].content,
                        <<IntroOf(scenario)>>)
            /\ Contains(histories'[currentMode'][Len(histories'[currentMode'])].content,
                        PreBriefQuestions)
            /\ \A m \in MentorModes \ {currentMode'} : histories'[m] = histories[m]
            /\ UNCHANGED <<input, loading, errorMsg, inflight, interactionCount,
                           checkInPrompt, skillsVars, caseName, storage>>
     /\ handleAfterAction =>
            /\ OneAssistantMessageAdded(histories[currentMode], histories'[currentMode])
            /\ \A m \in MentorModes \ {currentMode} : histories'[m] = histories[m]
            /\ UNCHANGED <<currentMode, input, loading, errorMsg, inflight, showPreBriefMenu,
                           interactionCount, checkInPrompt, skillsVars, caseName, storage>>]_vars

\* a pre-brief has moved the page to another mode while an error was shown
C29_Witness ==
  /\ currentMode = "pm_simulator"
  /\ histories["pm_simulator"] = <<AssistantMessage(PreBriefContent("ic_meeting"))>>
  /\ histories["communication_coach"] # <<>>
  /\ errorMsg # ""
  /\ ~showPreBriefMenu

\* the position in the fixed skill order of the first skill with the lowest score
FirstLowest ==
  CHOOSE i \in 1..Len(SkillIds) :
    /\ \A j \in 1..Len(SkillIds) : pScores[SkillIds[i]] <= pScores[SkillIds[j]]
    /\ \A j \in 1..(i - 1) : pScores[SkillIds[j]] > pScores[SkillIds[i]]

\* C30: step 1 names the skill that comes first in the order data, modeling,
\* communication, judgment, time among the skills of lowest score (the data
\* skill when all scores are equal), and a further call with the same scores
\* gives the same steps: only generatedAt may differ.
C30_TiesByFixedOrder ==
  [][/\ PathBuilt' =>
          pPath'.steps[1].description =
            <<StepOnePrefix, DQuote, SkillLabel(SkillIds[FirstLowest']), DQuote, StepOneSuffix>>
     /\ (PathBuilt /\ PathBuilt' /\ pScores' = pScores) => pPath'.steps = pPath.steps]_vars

\* the path of the default scores, generated at the later of the two times
C30_Witness ==
  /\ PathBuilt
  /\ pPath.generatedAt # FirstTime
  /\ \A id \in SkillSet : pScores[id] = DefaultScore
  /\ StepOneNames("data")
  /\ ~StepOneNames("time")

\* a request ends with an OK response
Succeeds == \E answer \in Answers : SendResolved(answer)

\* C27: the counter grows by one with every successful exchange and with
\* nothing else; an exchange that brings it to a multiple of 5 while a skills
\* path exists sets the check-in prompt, and no other exchange, failed send,
\* mode change, pre-brief or after-action insertion sets it.
C27_CounterAndCheckIn ==
  [][/\ Succeeds =>
          /\ interactionCount' = interactionCount + 1
          /\ IF skillsPath # NoPath /\ interactionCount' % 5 = 0
             THEN checkInPrompt' = CheckInText(skillsPath)
             ELSE checkInPrompt' = checkInPrompt
     /\ ~Succeeds =>
          /\ interactionCount' = interactionCount
          /\ checkInPrompt' \in {checkInPrompt, NoText}]_vars

====
